---- MODULE Spec2Model ----
(***************************************************************************)
(* Model of the GRec recommendation queries (src/src/queries.py) and the   *)
(* helpers of src/src/utils.py.  The graph (Recipe nodes with their        *)
(* WITH_INGREDIENTS edges, decoded tag and nutrition lists, and the        *)
(* REVIEWED / SUBMITTED edges of the users) is read-only state; every      *)
(* action is one call of one function of the repository: it records the    *)
(* arguments in `call` and what the function returns or raises in          *)
(* `result`.  Where Cypher fixes no order of the rows (a MATCH without     *)
(* ORDER BY, rows that tie on the sort key) an operator is the set of      *)
(* everything the query can return.                                        *)
(***************************************************************************)
EXTENDS Integers, Sequences, FiniteSets, TLC

VARIABLES recipes, edges, call, result

vars == <<recipes, edges, call, result>>

(***************************************************************************)
(* Bounds of the model                                                     *)
(***************************************************************************)
NRecipes == 2
MaxVal == 3

(***************************************************************************)
(* Program constants                                                       *)
(***************************************************************************)
NutrDims == 7
PositiveRating == 4

Recipes == 1..NRecipes
Users == {"u1", "u2"}
MidVal == MaxVal - 1
NutrValues == 0..MaxVal

(***************************************************************************)
(* Generic helpers: sequences over sets of rows                            *)
(***************************************************************************)
Range(s) == {s[i] : i \in DOMAIN s}

\* every sequence that lists each element of S exactly once
RECURSIVE AnyOrder(_)
AnyOrder(S) ==
    IF S = {} THEN {<<>>}
    ELSE UNION {{<<x>> \o s : s \in AnyOrder(S \ {x})} : x \in S}

\* SIZE([x IN list WHERE x IN favs])
MatchCountSeq(list, favs) == Cardinality({i \in DOMAIN list : list[i] \in favs})

(***************************************************************************)
(* Real numbers in fixed point.  A number is <<whole part, limb 1, ...,    *)
(* limb FracLimbs>>, the limbs being the digits of the fraction in base    *)
(* LimbBase: one unit of the last limb is 10^-20.  The operations round    *)
(* down.                                                                   *)
(***************************************************************************)
LimbBase == 10000
FracLimbs == 5

Whole(n) == [i \in 1..(FracLimbs + 1) |-> IF i = 1 THEN n ELSE 0]

\* limbs 1..i of y, the carry c added to limb i and every carry passed on
RECURSIVE Carried(_, _, _)
Carried(y, i, c) ==
    IF i = 1 THEN <<y[1] + c>>
    ELSE Carried(y, i - 1, (y[i] + c) \div LimbBase) \o <<(y[i] + c) % LimbBase>>

\* x + y for numbers of the same precision
RealAdd(x, y) ==
    CASE Len(x) = Len(y) -> Carried([i \in DOMAIN x |-> x[i] + y[i]], Len(x), 0)

\* x * m for a natural number m
RealTimes(x, m) == Carried([i \in DOMAIN x |-> x[i] * m], Len(x), 0)

\* long division: limbs i.. of x / d, rem being the remainder carried in
RECURSIVE DividedFrom(_, _, _, _)
DividedFrom(x, d, i, rem) ==
    IF i > Len(x) THEN <<>>
    ELSE <<(rem * LimbBase + x[i]) \div d>>
            \o DividedFrom(x, d, i + 1, (rem * LimbBase + x[i]) % d)

\* x / d for a natural number d > 0
RealOver(x, d) == DividedFrom(x, d, 1, 0)

RealLess(x, y) == \E i \in DOMAIN x : x[i] < y[i] /\ \A j \in 1..(i - 1) : x[j] = y[j]

(***************************************************************************)
(* Scores                                                                  *)
(***************************************************************************)
\* 2 * atanh(1 / d) = 2/d + 2/(3 d^3) + 2/(5 d^5) + ...; u is 2 / d^k, the
\* term before its division by k
RECURSIVE AtanhSeries(_, _, _)
AtanhSeries(u, d, k) ==
    IF u = Whole(0) THEN Whole(0)
    ELSE RealAdd(AtanhSeries(RealOver(RealOver(u, d), d), d, k + 2), RealOver(u, k))

SmallestFactor(k) == CHOOSE p \in 2..k : k % p = 0 /\ \A d \in 2..(p - 1) : k % d # 0

\* Cypher's log(k), the natural logarithm, for k >= 1:
\* ln(k) = ln(p) + ln(k / p) for a factor p, and
\* ln(k) = ln(k - 1) + 2 * atanh(1 / (2 k - 1)) for a prime k
RECURSIVE Log(_)
Log(k) ==
    IF k = 1 THEN Whole(0)
    ELSE LET p == SmallestFactor(k)
         IN  IF p = k
             THEN RealAdd(Log(k - 1), AtanhSeries(RealOver(Whole(2), 2 * k - 1), 2 * k - 1, 1))
             ELSE RealAdd(Log(p), Log(k \div p))

\* Log over the arguments the model meets most, computed once
LogMemo == [k \in 1..32 |-> Log(k)]

LogOf(k) == IF k \in DOMAIN LogMemo THEN LogMemo[k] ELSE Log(k)

\* 0.0 / 0
ScoreNaN == <<>>

IsNaN(s) == s = ScoreNaN

\* toFloat(m) / n * log(1 + n) for n > 0
Quotient(m, n) == RealOver(RealTimes(LogOf(1 + n), m), n)

\* Quotient over the counts the model meets most, computed once
QuotientMemo == [n \in 1..8 |-> [m \in 0..n |-> Quotient(m, n)]]

\* toFloat(m) / n * log(1 + n)
RelevanceScore(m, n) ==
    IF n = 0 THEN ScoreNaN
    ELSE IF n \in DOMAIN QuotientMemo /\ m \in DOMAIN QuotientMemo[n] THEN QuotientMemo[n][m]
    ELSE Quotient(m, n)

\* a + b
ScoreAdd(a, b) == IF IsNaN(a) \/ IsNaN(b) THEN ScoreNaN ELSE RealAdd(a, b)

\* 2 * 10^-15 * x.  The database holds a score as a double: the division,
\* the logarithm, the product and the sum each round, by less than
\* 10^-15 * x in all, so two scores closer than the slack, equal ones
\* among them, can compare either way
FloatSlack(x) == RealTimes([i \in DOMAIN x |-> IF i <= 4 THEN 0 ELSE x[i - 4]], 20)

\* a can sort at or before b under ORDER BY ... DESC; Cypher orders NaN
\* above every number
ScoreGeq(a, b) ==
    \/ IsNaN(a)
    \/ /\ ~IsNaN(b)
       /\ \/ ~RealLess(a, b)
          \/ ~RealLess(RealAdd(a, FloatSlack(b)), b)

\* ORDER BY key DESC, key[row] being the sort key of row: a row comes first
\* when no other row has a greater key, and ties come out in any order
RECURSIVE OrderByDesc(_, _)
OrderByDesc(S, key) ==
    IF S = {} THEN {<<>>}
    ELSE UNION {{<<x>> \o s : s \in OrderByDesc(S \ {x}, key)} :
                  x \in {y \in S : \A z \in S : ScoreGeq(key[y], key[z])}}

\* ORDER BY count DESC over an integer column
RECURSIVE OrderByCountDesc(_, _)
OrderByCountDesc(S, count) ==
    IF S = {} THEN {<<>>}
    ELSE UNION {{<<x>> \o s : s \in OrderByCountDesc(S \ {x}, count)} :
                  x \in {y \in S : \A z \in S : count[y] >= count[z]}}

(***************************************************************************)
(* The graph seen by the candidate queries                                 *)
(***************************************************************************)
\* COLLECT(i.name) over (r)-[:WITH_INGREDIENTS]->(i): one entry per edge
RecipeIngredients(g, r) == g[r].ingredients

\* MATCH (r:Recipe)-[:WITH_INGREDIENTS]->(i:Ingredient): recipes with an edge
WithIngredients(g) == {r \in DOMAIN g : RecipeIngredients(g, r) # {}}

IngrMatchCount(g, r, favIngreds) == Cardinality(RecipeIngredients(g, r) \cap favIngreds)

IngrScore(g, r, favIngreds) ==
    RelevanceScore(IngrMatchCount(g, r, favIngreds), Cardinality(RecipeIngredients(g, r)))

TagMatchCount(g, r, topTags) == MatchCountSeq(g[r].tags, topTags)

TagScore(g, r, topTags) == RelevanceScore(TagMatchCount(g, r, topTags), Len(g[r].tags))

\* the params dictionary of the three nutrition queries
RangeParams(calories_range, fat_range, sugar_range, sodium_range, protein_range, sat_fat_range, carbs_range) ==
    [min_0 |-> calories_range[1], max_0 |-> calories_range[2],
     min_1 |-> fat_range[1],      max_1 |-> fat_range[2],
     min_2 |-> sugar_range[1],    max_2 |-> sugar_range[2],
     min_3 |-> sodium_range[1],   max_3 |-> sodium_range[2],
     min_4 |-> protein_range[1],  max_4 |-> protein_range[2],
     min_5 |-> sat_fat_range[1],  max_5 |-> sat_fat_range[2],
     min_6 |-> carbs_range[1],    max_6 |-> carbs_range[2]]

\* the WHERE clause on nutritionList; nl[k + 1] is nutritionList[k]
NutritionWhere(nl, p) ==
    /\ nl[1] > p.min_0 /\ nl[1] < p.max_0
    /\ nl[2] > p.min_1 /\ nl[2] < p.max_1
    /\ nl[3] > p.min_1 /\ nl[3] < p.max_2
    /\ nl[4] > p.min_3 /\ nl[4] < p.max_3
    /\ nl[5] > p.min_4 /\ nl[5] < p.max_4
    /\ nl[6] > p.min_5 /\ nl[6] < p.max_5
    /\ nl[7] > p.min_6 /\ nl[7] < p.max_6

\* every nutrient k strictly inside the range passed for nutrient k
InOwnRanges(nl, ranges) ==
    \A k \in 1..NutrDims : ranges[k][1] < nl[k] /\ nl[k] < ranges[k][2]

(***************************************************************************)
(* Candidate queries: each operator is the set of row sequences the query  *)
(* can return (rows that tie on the sort key come out in any order)        *)
(***************************************************************************)
\* ORDER BY relevanceScore DESC
OrderByRelevance(rows) == OrderByDesc(rows, [row \in rows |-> row.relevanceScore])

\* get_recipe_w_ingreds without its WHERE NOT r.id IN $excludedRecipes
get_recipe_w_ingreds_no_exclusion(g, excluded_recipes, favorite_ingredients) ==
    OrderByRelevance(
        {[recipeID |-> r,
          recipeIngredients |-> RecipeIngredients(g, r),
          matchCount |-> IngrMatchCount(g, r, favorite_ingredients),
          totalIngredients |-> Cardinality(RecipeIngredients(g, r)),
          relevanceScore |-> IngrScore(g, r, favorite_ingredients)] :
            r \in {x \in WithIngredients(g) :
                     \E i \in RecipeIngredients(g, x) : i \in favorite_ingredients}})

get_recipe_w_ingreds(g, excluded_recipes, favorite_ingredients) ==
    OrderByRelevance(
        {[recipeID |-> r,
          recipeIngredients |-> RecipeIngredients(g, r),
          matchCount |-> IngrMatchCount(g, r, favorite_ingredients),
          totalIngredients |-> Cardinality(RecipeIngredients(g, r)),
          relevanceScore |-> IngrScore(g, r, favorite_ingredients)] :
            r \in {x \in WithIngredients(g) :
                     /\ x \notin excluded_recipes
                     /\ \E i \in RecipeIngredients(g, x) : i \in favorite_ingredients}})

get_recipe_nutritional_values(g, interacted_recipes, calories_range, fat_range, sugar_range, sodium_range, protein_range, sat_fat_range, carbs_range) ==
    AnyOrder(
        {[recipeID |-> r, nutritionList |-> g[r].nutrition] :
            r \in {x \in DOMAIN g :
                     /\ x \notin interacted_recipes
                     /\ NutritionWhere(g[x].nutrition,
                            RangeParams(calories_range, fat_range, sugar_range,
                                        sodium_range, protein_range,
                                        sat_fat_range, carbs_range))}})

\* get_recipe_nutritional_ingreds with sugar compared to $min_2, while the
\* other queries keep comparing it to $min_1
get_recipe_nutritional_ingreds_min_2(g, interacted_recipes, favorite_ingredients, calories_range, fat_range, sugar_range, sodium_range, protein_range, sat_fat_range, carbs_range) ==
    OrderByRelevance(
        {[recipeID |-> r,
          recipeIngredients |-> RecipeIngredients(g, r),
          nutritionList |-> g[r].nutrition,
          relevanceScore |-> IngrScore(g, r, favorite_ingredients)] :
            r \in {x \in WithIngredients(g) :
                     /\ x \notin interacted_recipes
                     /\ \E i \in RecipeIngredients(g, x) : i \in favorite_ingredients
                     /\ InOwnRanges(g[x].nutrition,
                            <<calories_range, fat_range, sugar_range, sodium_range,
                              protein_range, sat_fat_range, carbs_range>>)}})

get_recipe_nutritional_ingreds(g, interacted_recipes, favorite_ingredients, calories_range, fat_range, sugar_range, sodium_range, protein_range, sat_fat_range, carbs_range) ==
    OrderByRelevance(
        {[recipeID |-> r,
          recipeIngredients |-> RecipeIngredients(g, r),
          nutritionList |-> g[r].nutrition,
          relevanceScore |-> IngrScore(g, r, favorite_ingredients)] :
            r \in {x \in WithIngredients(g) :
                     /\ x \notin interacted_recipes
                     /\ \E i \in RecipeIngredients(g, x) : i \in favorite_ingredients
                     /\ NutritionWhere(g[x].nutrition,
                            RangeParams(calories_range, fat_range, sugar_range,
                                        sodium_range, protein_range,
                                        sat_fat_range, carbs_range))}})

\* find_top_tag_matching_recipes without its WHERE ANY(tag IN tagList ...)
find_top_tag_matching_recipes_no_any(g, interacted_recipes, top_tags) ==
    OrderByRelevance(
        {[recipeID |-> r,
          tagList |-> g[r].tags,
          matchCount |-> TagMatchCount(g, r, top_tags),
          totalTags |-> Len(g[r].tags),
          relevanceScore |-> TagScore(g, r, top_tags)] :
            r \in {x \in DOMAIN g : x \notin interacted_recipes}})

find_top_tag_matching_recipes(g, interacted_recipes, top_tags) ==
    OrderByRelevance(
        {[recipeID |-> r,
          tagList |-> g[r].tags,
          matchCount |-> TagMatchCount(g, r, top_tags),
          totalTags |-> Len(g[r].tags),
          relevanceScore |-> TagScore(g, r, top_tags)] :
            r \in {x \in DOMAIN g :
                     /\ x \notin interacted_recipes
                     /\ \E t \in Range(g[x].tags) : t \in top_tags}})

\* ORDER BY ingrRelScore DESC, the tag score left out of the sort key
OrderByIngrRelScore(rows) == OrderByDesc(rows, [row \in rows |-> row.ingrRelScore])

\* ORDER BY (ingrRelScore + tagRelScore) DESC
OrderByFused(rows) ==
    OrderByDesc(rows, [row \in rows |-> ScoreAdd(row.ingrRelScore, row.tagRelScore)])

find_matching_recipes_with_nutrition_and_tags(g, interacted_recipes, favorite_ingredients, top_tags, calories_range, fat_range, sugar_range, sodium_range, protein_range, sat_fat_range, carbs_range) ==
    OrderByFused(
        {[recipeID |-> r,
          matchingIngreds |-> IngrMatchCount(g, r, favorite_ingredients),
          matchingTags |-> TagMatchCount(g, r, top_tags),
          ingrRelScore |-> IngrScore(g, r, favorite_ingredients),
          tagRelScore |-> TagScore(g, r, top_tags)] :
            r \in {x \in WithIngredients(g) :
                     /\ x \notin interacted_recipes
                     /\ \E i \in RecipeIngredients(g, x) : i \in favorite_ingredients
                     /\ NutritionWhere(g[x].nutrition,
                            RangeParams(calories_range, fat_range, sugar_range,
                                        sodium_range, protein_range,
                                        sat_fat_range, carbs_range))
                     /\ \E t \in Range(g[x].tags) : t \in top_tags}})

(***************************************************************************)
(* Inputs of the candidate queries                                         *)
(***************************************************************************)
MidVector == [k \in 1..NutrDims |-> MidVal]
DefaultRanges == [k \in 1..NutrDims |-> <<0, MaxVal>>]

\* the default ranges, or the default with one bound of one nutrient moved inwards
RangeInputs ==
    {DefaultRanges}
        \cup {[DefaultRanges EXCEPT ![k] = <<1, MaxVal>>] : k \in 1..NutrDims}
        \cup {[DefaultRanges EXCEPT ![k] = <<0, MidVal>>] : k \in 1..NutrDims}

ExclusionInputs == {1..n : n \in 0..NRecipes}
FavInputs == {{}, {"butter"}, {"flour", "butter"}}
TagInputs == {{}, {"vegan"}, {"easy", "vegan"}}

\* no REVIEWED or SUBMITTED relationship in the graph
NoEdges == [u \in Users |-> [r \in Recipes |-> <<>>]]

\* graphs that vary the ingredient and tag axes, every nutrient at MidVal
AxisRecipes ==
    {[ingredients |-> i, tags |-> t, nutrition |-> MidVector] :
        i \in {{}, {"flour"}, {"flour", "butter"}},
        t \in {<<>>, <<"easy">>, <<"easy", "vegan">>}}

\* graphs that vary nutrient k of recipe d, with and without ingredients
NutrGraphs(d, k) ==
    {g \in [Recipes -> {[ingredients |-> i, tags |-> <<"easy", "vegan">>,
                         nutrition |-> [MidVector EXCEPT ![k] = v]] :
                            i \in {{}, {"flour", "butter"}}, v \in NutrValues}] :
        \A r \in Recipes \ {d} : g[r].nutrition = MidVector}

\* two recipes whose ingredient scores are the same number from different
\* counts: 1/2 * ln(3) and 2/8 * ln(9)
TieRecipes ==
    {[ingredients |-> {"butter", "salt"}, tags |-> <<"easy">>, nutrition |-> MidVector],
     [ingredients |-> {"flour", "butter", "sugar", "salt", "egg", "milk", "oil", "yeast"},
      tags |-> <<"easy">>, nutrition |-> MidVector]}

\* two recipes that the ingredient score and the fused score rank differently
FusionRecipes ==
    {[ingredients |-> {"flour"}, tags |-> <<"easy", "vegan">>, nutrition |-> MidVector],
     [ingredients |-> {"flour", "butter"}, tags |-> <<"easy", "quick">>,
      nutrition |-> MidVector]}

InitCandidates ==
    /\ \/ recipes \in [Recipes -> AxisRecipes]
       \/ \E d \in Recipes, k \in 1..NutrDims : recipes \in NutrGraphs(d, k)
       \/ recipes \in [Recipes -> FusionRecipes]
       \/ recipes \in [Recipes -> TieRecipes]
    /\ edges = NoEdges
    /\ call = [op |-> "none"]
    /\ result = <<>>

\* Calls share no state (every function reads the graph and returns), so a
\* behaviour is one call on one graph.
Idle == call.op = "none"

Returns(op, args, rows) ==
    /\ call' = [op |-> op] @@ args
    /\ result' = rows
    /\ UNCHANGED <<recipes, edges>>

GetRecipeWIngreds ==
    /\ Idle
    /\ \E ex \in ExclusionInputs, fav \in FavInputs :
      \E rows \in get_recipe_w_ingreds(recipes, ex, fav) :
        Returns("get_recipe_w_ingreds",
                [excluded |-> ex, favIngreds |-> fav], rows)

GetRecipeNutritionalValues ==
    /\ Idle
    /\ \E ex \in ExclusionInputs, rg \in RangeInputs :
      \E rows \in get_recipe_nutritional_values(recipes, ex, rg[1], rg[2], rg[3],
                                                rg[4], rg[5], rg[6], rg[7]) :
        Returns("get_recipe_nutritional_values",
                [excluded |-> ex, ranges |-> rg], rows)

GetRecipeNutritionalIngreds ==
    /\ Idle
    /\ \E ex \in ExclusionInputs, fav \in FavInputs, rg \in RangeInputs :
      \E rows \in get_recipe_nutritional_ingreds(recipes, ex, fav, rg[1], rg[2],
                                                 rg[3], rg[4], rg[5], rg[6], rg[7]) :
        Returns("get_recipe_nutritional_ingreds",
                [excluded |-> ex, favIngreds |-> fav, ranges |-> rg], rows)

FindTopTagMatchingRecipes ==
    /\ Idle
    /\ \E ex \in ExclusionInputs, tt \in TagInputs :
      \E rows \in find_top_tag_matching_recipes(recipes, ex, tt) :
        Returns("find_top_tag_matching_recipes",
                [excluded |-> ex, topTags |-> tt], rows)

FindMatchingRecipesWithNutritionAndTags ==
    /\ Idle
    /\ \E ex \in ExclusionInputs, fav \in FavInputs, tt \in TagInputs, rg \in RangeInputs :
      \E rows \in find_matching_recipes_with_nutrition_and_tags(
                      recipes, ex, fav, tt, rg[1], rg[2], rg[3], rg[4], rg[5],
                      rg[6], rg[7]) :
        Returns("find_matching_recipes_with_nutrition_and_tags",
                [excluded |-> ex, favIngreds |-> fav, topTags |-> tt, ranges |-> rg],
                rows)

NextCandidates ==
    \/ GetRecipeWIngreds
    \/ GetRecipeNutritionalValues
    \/ GetRecipeNutritionalIngreds
    \/ FindTopTagMatchingRecipes
    \/ FindMatchingRecipesWithNutritionAndTags

Spec == InitCandidates /\ [][NextCandidates]_vars

(***************************************************************************)
(* Claims on the candidate queries                                         *)
(***************************************************************************)
CandidateOps ==
    {"get_recipe_w_ingreds", "get_recipe_nutritional_values",
     "get_recipe_nutritional_ingreds", "find_top_tag_matching_recipes",
     "find_matching_recipes_with_nutrition_and_tags"}

ResultIds == {result[i].recipeID : i \in DOMAIN result}

\* the recipe ids of the rows of a query (the same in every order of the rows)
IdsOf(rowSeqs) == UNION {{s[i].recipeID : i \in DOMAIN s} : s \in rowSeqs}

IngredientAxisIds(ex, fav) == IdsOf(get_recipe_w_ingreds(recipes, ex, fav))

NutritionAxisIds(ex, rg) ==
    IdsOf(get_recipe_nutritional_values(recipes, ex, rg[1], rg[2], rg[3], rg[4],
                                        rg[5], rg[6], rg[7]))

TagAxisIds(ex, tt) == IdsOf(find_top_tag_matching_recipes(recipes, ex, tt))

\* C1: no candidate query returns a row whose recipe id is in the exclusion
\* list it was passed.
C1_ExcludedNeverReturned ==
    call.op \in CandidateOps => ResultIds \cap call.excluded = {}

\* the combined query returned rows while a recipe that passes all three
\* axes was left out only because it is in the exclusion list
C1_Witness ==
    /\ call.op = "find_matching_recipes_with_nutrition_and_tags"
    /\ result # <<>>
    /\ \E r \in call.excluded :
          /\ r \in IngredientAxisIds({}, call.favIngreds)
          /\ r \in NutritionAxisIds({}, call.ranges)
          /\ r \in TagAxisIds({}, call.topTags)

\* C2: on the nutrition axis a non-excluded recipe is returned exactly when
\* each of its 7 nutrient values lies strictly between the low and the high
\* bound passed for that same nutrient.
C2_NutritionAxisOwnBounds ==
    /\ call.op = "get_recipe_nutritional_values" =>
          ResultIds = {r \in Recipes \ call.excluded :
                         InOwnRanges(recipes[r].nutrition, call.ranges)}
    /\ call.op = "get_recipe_nutritional_ingreds" =>
          ResultIds = {r \in IngredientAxisIds(call.excluded, call.favIngreds) :
                         InOwnRanges(recipes[r].nutrition, call.ranges)}
    /\ call.op = "find_matching_recipes_with_nutrition_and_tags" =>
          ResultIds = {r \in IngredientAxisIds(call.excluded, call.favIngreds)
                              \cap TagAxisIds(call.excluded, call.topTags) :
                         InOwnRanges(recipes[r].nutrition, call.ranges)}

\* C3: the combined queries return the intersection of what the single-axis
\* queries return for the same arguments: ingredients AND nutrition, and
\* ingredients AND nutrition AND tags.
C3_CombinedAxesAreIntersection ==
    /\ call.op = "get_recipe_nutritional_ingreds" =>
          ResultIds = IngredientAxisIds(call.excluded, call.favIngreds)
                          \cap NutritionAxisIds(call.excluded, call.ranges)
    /\ call.op = "find_matching_recipes_with_nutrition_and_tags" =>
          ResultIds = IngredientAxisIds(call.excluded, call.favIngreds)
                          \cap NutritionAxisIds(call.excluded, call.ranges)
                          \cap TagAxisIds(call.excluded, call.topTags)

\* get_recipe_nutritional_ingreds returned some recipe and dropped another
\* that passes the ingredient axis but fails the nutrition axis
C3_Witness ==
    /\ call.op = "get_recipe_nutritional_ingreds"
    /\ ResultIds # {}
    /\ IngredientAxisIds(call.excluded, call.favIngreds) \ ResultIds # {}

IngredientScoredOps == {"get_recipe_w_ingreds", "get_recipe_nutritional_ingreds"}
FusedOp == "find_matching_recipes_with_nutrition_and_tags"

\* the counts of a recipe on each axis, from the graph and the call
MatchedIngredients(id) == Cardinality(recipes[id].ingredients \cap call.favIngreds)
TotalIngredients(id) == Cardinality(recipes[id].ingredients)
MatchedTags(id) ==
    Cardinality({k \in DOMAIN recipes[id].tags : recipes[id].tags[k] \in call.topTags})
TotalTags(id) == Len(recipes[id].tags)

\* 10^8 * ln(k) to the nearest unit for k = 1, ..., 9, from the tables
NaturalLog8 ==
    <<0, 69314718, 109861229, 138629436, 160943791, 179175947, 194591015,
      207944154, 219722458>>

\* a score in units of 10^-8, rounded down
Units8(s) == s[1] * 100000000 + s[2] * 10000 + s[3]

\* s is matched / total * ln(1 + total) to 8 decimals: total * s and
\* matched * ln(1 + total) differ by less than 2 * total units
IsAxisScore(s, matched, total) ==
    /\ total > 0 /\ ~IsNaN(s)
    /\ Units8(s) * total - matched * NaturalLog8[1 + total] <= 2 * total
    /\ matched * NaturalLog8[1 + total] - Units8(s) * total <= 2 * total

\* 10^-14, above what the rounding of the doubles can move a score
FloatTolerance == <<0, 0, 0, 0, 100, 0>>

\* x is below y by more than the tolerance
ClearlyBelow(x, y) == RealLess(RealAdd(x, FloatTolerance), y)

FusedScore(row) == RealAdd(row.ingrRelScore, row.tagRelScore)

\* C14: the combined query returns its rows in non-increasing order of
\* ingredient score + tag score (no weights), each axis score being
\* (matched / total) * ln(1 + total); the single-axis queries return their
\* rows in non-increasing order of their one axis score.  Scores are
\* checked to 8 decimals against the logarithm tables, the order up to the
\* rounding of the doubles.
C14_RankedByScore ==
    /\ call.op = FusedOp =>
          /\ \A i \in DOMAIN result :
                /\ IsAxisScore(result[i].ingrRelScore,
                               MatchedIngredients(result[i].recipeID),
                               TotalIngredients(result[i].recipeID))
                /\ IsAxisScore(result[i].tagRelScore,
                               MatchedTags(result[i].recipeID),
                               TotalTags(result[i].recipeID))
          /\ \A i, j \in DOMAIN result :
                i < j => ~ClearlyBelow(FusedScore(result[i]), FusedScore(result[j]))
    /\ call.op \in IngredientScoredOps =>
          /\ \A i \in DOMAIN result :
                IsAxisScore(result[i].relevanceScore,
                            MatchedIngredients(result[i].recipeID),
                            TotalIngredients(result[i].recipeID))
          /\ \A i, j \in DOMAIN result :
                i < j => ~ClearlyBelow(result[i].relevanceScore, result[j].relevanceScore)
    /\ call.op = "find_top_tag_matching_recipes" =>
          /\ \A i \in DOMAIN result :
                IsAxisScore(result[i].relevanceScore,
                            MatchedTags(result[i].recipeID),
                            TotalTags(result[i].recipeID))
          /\ \A i, j \in DOMAIN result :
                i < j => ~ClearlyBelow(result[i].relevanceScore, result[j].relevanceScore)

\* the combined query ranked a row first whose ingredient score is clearly
\* lower and whose fused score is clearly higher than those of the next row
C14_Witness ==
    /\ call.op = FusedOp
    /\ \E i, j \in DOMAIN result :
          /\ i < j
          /\ ClearlyBelow(result[i].ingrRelScore, result[j].ingrRelScore)
          /\ ClearlyBelow(FusedScore(result[j]), FusedScore(result[i]))

\* 1 <= matched <= total and a score with a non-zero denominator and a
\* strictly positive value
ScoredAxisOk(matched, total, score) ==
    /\ 1 <= matched /\ matched <= total
    /\ total # 0 /\ ~IsNaN(score)
    /\ RealLess(Whole(0), score)

IngrAxisOk(id, score) ==
    ScoredAxisOk(Cardinality(recipes[id].ingredients \cap call.favIngreds),
                 Cardinality(recipes[id].ingredients), score)

TagAxisOk(id, score) ==
    ScoredAxisOk(Cardinality({k \in DOMAIN recipes[id].tags :
                                 recipes[id].tags[k] \in call.topTags}),
                 Len(recipes[id].tags), score)

\* C15: every row returned by a scoring query has, on each axis it scores,
\* 1 <= matched_count <= total_axis_cardinality, hence a non-zero
\* denominator and a strictly positive score; the counts a row reports are
\* those of its recipe.
C15_MatchedWithinTotal ==
    /\ call.op = "get_recipe_w_ingreds" =>
          \A i \in DOMAIN result :
              /\ IngrAxisOk(result[i].recipeID, result[i].relevanceScore)
              /\ result[i].matchCount
                    = Cardinality(recipes[result[i].recipeID].ingredients \cap call.favIngreds)
              /\ result[i].totalIngredients
                    = Cardinality(recipes[result[i].recipeID].ingredients)
    /\ call.op = "get_recipe_nutritional_ingreds" =>
          \A i \in DOMAIN result : IngrAxisOk(result[i].recipeID, result[i].relevanceScore)
    /\ call.op = "find_top_tag_matching_recipes" =>
          \A i \in DOMAIN result :
              /\ TagAxisOk(result[i].recipeID, result[i].relevanceScore)
              /\ result[i].totalTags = Len(recipes[result[i].recipeID].tags)
    /\ call.op = FusedOp =>
          \A i \in DOMAIN result :
              /\ IngrAxisOk(result[i].recipeID, result[i].ingrRelScore)
              /\ TagAxisOk(result[i].recipeID, result[i].tagRelScore)
              /\ result[i].matchingIngreds >= 1
              /\ result[i].matchingTags >= 1

\* the tag query returned a row that matches only part of its tags while a
\* recipe that is not excluded and has no tag at all was left out
C15_Witness ==
    /\ call.op = "find_top_tag_matching_recipes"
    /\ \E i \in DOMAIN result : result[i].matchCount < result[i].totalTags
    /\ \E r \in DOMAIN recipes \ call.excluded :
          /\ recipes[r].tags = <<>>
          /\ r \notin ResultIds

(***************************************************************************)
(* The user's history: edges[u][r] lists the relationships from user u to  *)
(* recipe r in storage order; a relationship is                            *)
(* [type |-> "REVIEWED" or "SUBMITTED", rating |-> {} or {n}], an absent   *)
(* rating property being the empty set                                     *)
(***************************************************************************)
Reviewed(n) == [type |-> "REVIEWED", rating |-> {n}]
Submitted == [type |-> "SUBMITTED", rating |-> {}]
SubmittedRated(n) == [type |-> "SUBMITTED", rating |-> {n}]

\* Cypher's ternary logic, as "true", "false", "null"
CypherGeq(prop, n) ==
    IF prop = {} THEN "null"
    ELSE IF \A x \in prop : x >= n THEN "true" ELSE "false"

CypherEq(a, b) == IF a = b THEN "true" ELSE "false"

CypherOr(a, b) ==
    IF a = "true" \/ b = "true" THEN "true"
    ELSE IF a = "null" \/ b = "null" THEN "null" ELSE "false"

\* rel.rating >= 5 only, as the docstring of get_user_favourite_ingredients
\* words it
RelWhereRatingFive(rel) ==
    CypherOr(CypherGeq(rel.rating, PositiveRating + 1), CypherEq(rel.type, "SUBMITTED")) = "true"

\* WHERE (rel.rating >= 4 OR TYPE(rel) = 'SUBMITTED'): the row passes when
\* the condition is true (not false, not null)
RelWhere(rel) ==
    CypherOr(CypherGeq(rel.rating, PositiveRating), CypherEq(rel.type, "SUBMITTED")) = "true"

\* MATCH (u:User {id: $userId})-[rel:REVIEWED|SUBMITTED]->(r:Recipe): one
\* path per relationship of the first n recipes
RECURSIVE UserPaths(_, _, _)
UserPaths(e, user_id, n) ==
    IF n = 0 THEN <<>>
    ELSE UserPaths(e, user_id, n - 1)
            \o [i \in 1..Len(e[user_id][n]) |-> [recipe |-> n, rel |-> e[user_id][n][i]]]

\* the paths that pass the WHERE
PositivePaths(e, user_id) ==
    SelectSeq(UserPaths(e, user_id, Len(e[user_id])), LAMBDA p : RelWhere(p.rel))

\* how many of the paths lead to each recipe
PathCounts(paths) ==
    [r \in {paths[k].recipe : k \in DOMAIN paths} |->
        Cardinality({k \in DOMAIN paths : paths[k].recipe = r})]

\* every sequence that lists each recipe r exactly c[r] times
RECURSIVE Arrangements(_)
Arrangements(c) ==
    IF \A r \in DOMAIN c : c[r] = 0 THEN {<<>>}
    ELSE UNION {{<<r>> \o s : s \in Arrangements([c EXCEPT ![r] = @ - 1])} :
                  r \in {x \in DOMAIN c : c[x] > 0}}

\* the recipes of the paths that pass the WHERE, in every order in which the
\* MATCH can yield the paths: get_user_nutritional_values has no ORDER BY,
\* so the order of its rows is the one of the database's walk
PositiveWalks(e, user_id) == Arrangements(PathCounts(PositivePaths(e, user_id)))

(***************************************************************************)
(* numpy.percentile, default (linear) method, for an integer percentage q  *)
(* over integer data.  Values are kept in hundredths: x100 = 100 * value.  *)
(***************************************************************************)
Num(x100) == [nan |-> FALSE, x100 |-> x100]
NaN == [nan |-> TRUE, x100 |-> 0]

\* the data sorted ascending
Sorted(values) == SortSeq(values, LAMBDA a, b : a < b)

\* virtual index (n - 1) * q / 100, value a[lo] + (a[lo + 1] - a[lo]) * frac
PercentileX100(values, q) ==
    LET a == Sorted(values)
        n == Len(a)
        pos100 == (n - 1) * q
        lo == pos100 \div 100
        rem == pos100 % 100
    IN  IF rem = 0 THEN 100 * a[lo + 1]
        ELSE 100 * a[lo + 1] + rem * (a[lo + 2] - a[lo + 1])

\* what np.percentile can do: on empty data it raises IndexError or, on
\* the releases that only warn, returns nan
np_percentile(values, q) ==
    IF values = <<>>
    THEN {[kind |-> "raise", error |-> "IndexError"], [kind |-> "return", value |-> NaN]}
    ELSE {[kind |-> "return", value |-> Num(PercentileX100(values, q))]}

\* list(set(column)): the distinct values, in some order
RECURSIVE SetToSeq(_)
SetToSeq(S) ==
    IF S = {} THEN <<>>
    ELSE LET x == CHOOSE y \in S : \A z \in S : y <= z
         IN  <<x>> \o SetToSeq(S \ {x})

Column(rows, name) == [i \in DOMAIN rows |-> rows[i][name]]

\* the filter with the comparison turned round
FilterLeq(rows, col, threshold) ==
    SelectSeq(rows, LAMBDA row : ~threshold.nan /\ 100 * row[col] <= threshold.x100)

\* frame[frame[col] >= threshold]; a comparison with nan is False
FilterGeq(rows, col, threshold) ==
    SelectSeq(rows, LAMBDA row : ~threshold.nan /\ 100 * row[col] >= threshold.x100)

\* ORDER BY favCount DESC and ORDER BY tagCount DESC
OrderByFavCount(rows) ==
    OrderByCountDesc(rows, [row \in rows |-> row.favCount])

OrderByTagCount(rows) ==
    OrderByCountDesc(rows, [row \in rows |-> row.tagCount])

(***************************************************************************)
(* Preference extraction                                                   *)
(***************************************************************************)
\* the rows of the MATCH that WITH i, ... groups under ingredient i: one
\* per positive path whose recipe has a WITH_INGREDIENTS edge to i
IngredientPaths(g, paths, i) ==
    SelectSeq(paths, LAMBDA p : i \in g[p.recipe].ingredients)

\* the row sets WITH i, COUNT(r), COLLECT(r.id) can build over names: the
\* MATCH yields its (path, ingredient) rows in any order, so the
\* COLLECT(r.id) of each ingredient comes in any order of its own
RECURSIVE FavouriteIngredientRows(_, _, _)
FavouriteIngredientRows(g, paths, names) ==
    IF names = {} THEN {{}}
    ELSE LET i == CHOOSE x \in names : TRUE
         IN  UNION {{{[favoriteIngredient |-> i,
                       favCount |-> Len(favRecipes),
                       favRecipes |-> favRecipes]} \cup rows :
                        rows \in FavouriteIngredientRows(g, paths, names \ {i})} :
                      favRecipes \in Arrangements(PathCounts(IngredientPaths(g, paths, i)))}

\* the frames the query can return: the ingredients of the positive paths
\* that are not excluded, one row each, then ORDER BY favCount DESC
FavouriteIngredientFrames(g, e, user_id, excluded_ingr) ==
    LET paths == PositivePaths(e, user_id)
        names == {i \in UNION {g[paths[k].recipe].ingredients : k \in DOMAIN paths} :
                    i \notin excluded_ingr}
    IN  UNION {OrderByFavCount(rows) : rows \in FavouriteIngredientRows(g, paths, names)}

\* the percentile step over the rows of either preference query
ThresholdFilter(rows, col, percentil) ==
    IF rows # <<>>
    THEN {IF t.kind = "raise" THEN t
          ELSE [kind |-> "return", rows |-> FilterGeq(rows, col, t.value)] :
            t \in np_percentile(SetToSeq(Range(Column(rows, col))), percentil)}
    ELSE {[kind |-> "return", rows |-> rows]}

\* get_user_favourite_ingredients with the percentile taken over the whole
\* favCount column
get_user_favourite_ingredients_multiset(g, e, user_id, excluded_ingr, percentil) ==
    UNION {IF rows # <<>>
           THEN {IF t.kind = "raise" THEN t
                 ELSE [kind |-> "return", rows |-> FilterGeq(rows, "favCount", t.value)] :
                   t \in np_percentile(Column(rows, "favCount"), percentil)}
           ELSE {[kind |-> "return", rows |-> rows]} :
             rows \in FavouriteIngredientFrames(g, e, user_id, excluded_ingr)}

\* get_user_favourite_ingredients without its "if not query.empty" guard
get_user_favourite_ingredients_unguarded(g, e, user_id, excluded_ingr, percentil) ==
    UNION {{IF t.kind = "raise" THEN t
            ELSE [kind |-> "return", rows |-> FilterGeq(rows, "favCount", t.value)] :
              t \in np_percentile(SetToSeq(Range(Column(rows, "favCount"))), percentil)} :
             rows \in FavouriteIngredientFrames(g, e, user_id, excluded_ingr)}

get_user_favourite_ingredients(g, e, user_id, excluded_ingr, percentil) ==
    UNION {ThresholdFilter(rows, "favCount", percentil) :
             rows \in FavouriteIngredientFrames(g, e, user_id, excluded_ingr)}

\* the rows of the Cypher query of get_user_top_tags: UNWIND gives one row
\* per positive path and tag-list entry
TopTagRows(g, e, user_id, excluded_tags) ==
    LET paths == PositivePaths(e, user_id)
        names == {t \in UNION {Range(g[paths[k].recipe].tags) : k \in DOMAIN paths} :
                    t \notin excluded_tags}
        occurrences(t, p) == MatchCountSeq(g[p.recipe].tags, {t})
        RECURSIVE total(_, _)
        total(t, k) == IF k = 0 THEN 0 ELSE total(t, k - 1) + occurrences(t, paths[k])
    IN  {[tag |-> t, tagCount |-> total(t, Len(paths))] : t \in names}

get_user_top_tags(g, e, user_id, excluded_tags, percentil) ==
    UNION {ThresholdFilter(rows, "tagCount", percentil) :
             rows \in OrderByTagCount(TopTagRows(g, e, user_id, excluded_tags))}

(***************************************************************************)
(* Nutrition profile                                                       *)
(***************************************************************************)
\* one row per positive path; the query has no ORDER BY, so the frames it
\* can return are those of every order of the matched paths
get_user_nutritional_values(g, e, user_id) ==
    {[k \in DOMAIN walk |->
        LET nl == g[walk[k]].nutrition
        IN  [recipeID |-> walk[k],
             calories |-> nl[1], totalFat |-> nl[2], sugar |-> nl[3],
             sodium |-> nl[4], protein |-> nl[5], saturatedFat |-> nl[6],
             carbs |-> nl[7]]] : walk \in PositiveWalks(e, user_id)}

\* the columns get_nutritional_values reads, in the order of its return
ProfiledColumns == <<"calories", "totalFat", "sugar", "sodium", "protein">>

\* each range is a pair of np.percentile calls; the first call that raises
\* ends the function
get_nutritional_values(nutrVal, d_range) ==
    IF nutrVal = <<>>
    THEN {[kind |-> "raise", error |-> "IndexError"],
          [kind |-> "return", value |-> [c \in DOMAIN ProfiledColumns |-> <<NaN, NaN>>]]}
    ELSE {[kind |-> "return",
           value |-> [c \in DOMAIN ProfiledColumns |->
                        <<Num(PercentileX100(Column(nutrVal, ProfiledColumns[c]), d_range[1])),
                          Num(PercentileX100(Column(nutrVal, ProfiledColumns[c]), d_range[2]))>>]]}

(***************************************************************************)
(* Inputs of the profile functions                                         *)
(***************************************************************************)
PercentileInputs == {0, 25, 50, 75, 100}
DRangeInputs == {<<25, 75>>, <<0, 100>>, <<50, 50>>}
ExcludedIngrInputs == {{}, {"salt"}, {"flour", "sugar", "salt"}}
ExcludedTagInputs == {{}, {"quick"}, {"easy", "vegan", "quick"}}

\* what one user can have to one recipe
HistoryInputs ==
    {<<>>, <<Reviewed(PositiveRating - 1)>>, <<Reviewed(PositiveRating)>>, <<Submitted>>,
     <<Reviewed(PositiveRating + 1), Submitted>>,
     <<Reviewed(PositiveRating - 1), SubmittedRated(1)>>}

\* the histories that only count a recipe 0, 1 or 2 times
PlainHistoryInputs ==
    {<<>>, <<Reviewed(PositiveRating)>>, <<Reviewed(PositiveRating + 1), Submitted>>}

\* the histories that count a recipe at most once
SingleHistoryInputs == {<<>>, <<Reviewed(PositiveRating)>>}

\* the other user reviewed the first recipe and submitted the second
OtherHistory ==
    [r \in Recipes |->
        CASE r = 1 -> <<Reviewed(PositiveRating + 1)>> [] r = 2 -> <<Submitted>> [] OTHER -> <<>>]

\* recipes that vary the ingredient and tag lists
ItemRecipes ==
    <<[ingredients |-> {"flour", "sugar"}, tags |-> <<"easy", "vegan">>,
       nutrition |-> MidVector],
      [ingredients |-> {"flour", "salt"}, tags |-> <<"easy", "quick">>,
       nutrition |-> MidVector],
      [ingredients |-> {"flour"}, tags |-> <<"easy">>, nutrition |-> MidVector],
      [ingredients |-> {"flour", "sugar", "salt"}, tags |-> <<"easy", "vegan", "quick">>,
       nutrition |-> MidVector],
      [ingredients |-> {}, tags |-> <<>>, nutrition |-> MidVector]>>

\* nutrition vectors that differ from one nutrient to the next
AscVector == [k \in 1..NutrDims |-> (k - 1) % (MaxVal + 1)]
DescVector == [k \in 1..NutrDims |-> MaxVal - ((k - 1) % (MaxVal + 1))]
StepVector == [k \in 1..NutrDims |-> IF k % 2 = 0 THEN 0 ELSE MaxVal]

VectorRecipes ==
    [v \in 1..3 |->
        [ingredients |-> {}, tags |-> <<>>,
         nutrition |-> CASE v = 1 -> AscVector [] v = 2 -> DescVector [] OTHER -> StepVector]]

\* the graphs whose recipes are taken from kinds, up to the numbering of the
\* recipes (no profile function depends on it)
GraphsOver(kinds) ==
    {[r \in Recipes |-> kinds[f[r]]] :
        f \in {x \in [Recipes -> DOMAIN kinds] : \A r \in Recipes \ {1} : x[r - 1] <= x[r]}}

\* any history over fixed recipes, a history that counts one or two
\* recipes once each over any recipes, or a plain history over any
\* nutrition vectors
InitProfile ==
    /\ \E h \in [Recipes -> HistoryInputs \cup PlainHistoryInputs] :
          /\ edges = [u \in Users |-> IF u = "u1" THEN h ELSE OtherHistory]
          /\ \/ recipes = [r \in Recipes |-> ItemRecipes[((r - 1) % Len(ItemRecipes)) + 1]]
             \/ /\ \A r \in Recipes : h[r] \in SingleHistoryInputs
                /\ \E a, b \in Recipes : \A r \in Recipes \ {a, b} : h[r] = <<>>
                /\ recipes \in GraphsOver(ItemRecipes)
             \/ /\ \A r \in Recipes : h[r] \in PlainHistoryInputs
                /\ recipes \in GraphsOver(VectorRecipes)
    /\ call = [op |-> "none"]
    /\ result = <<>>

Outcome(op, args, out) ==
    /\ call' = [op |-> op] @@ args
    /\ result' = out
    /\ UNCHANGED <<recipes, edges>>

GetUserFavouriteIngredients ==
    /\ Idle
    /\ \E u \in Users, ex \in ExcludedIngrInputs, p \in PercentileInputs :
         \E out \in get_user_favourite_ingredients(recipes, edges, u, ex, p) :
           Outcome("get_user_favourite_ingredients",
                   [user_id |-> u, excluded |-> ex, percentil |-> p], out)

GetUserTopTags ==
    /\ Idle
    /\ \E u \in Users, ex \in ExcludedTagInputs, p \in PercentileInputs :
         \E out \in get_user_top_tags(recipes, edges, u, ex, p) :
           Outcome("get_user_top_tags",
                   [user_id |-> u, excluded |-> ex, percentil |-> p], out)

GetUserNutritionalValues ==
    /\ Idle
    /\ \E u \in Users :
         \E rows \in get_user_nutritional_values(recipes, edges, u) :
           Outcome("get_user_nutritional_values", [user_id |-> u],
                   [kind |-> "return", rows |-> rows])

\* the profile of a user: get_nutritional_values on the frame that
\* get_user_nutritional_values returned for that user
GetNutritionalValues ==
    /\ Idle
    /\ \E u \in Users, d \in DRangeInputs :
         \E nutrVal \in get_user_nutritional_values(recipes, edges, u) :
           \E out \in get_nutritional_values(nutrVal, d) :
             Outcome("get_nutritional_values",
                     [user_id |-> u, nutrVal |-> nutrVal, d_range |-> d], out)

NextProfile ==
    \/ GetUserFavouriteIngredients
    \/ GetUserTopTags
    \/ GetUserNutritionalValues
    \/ GetNutritionalValues

SpecProfile == InitProfile /\ [][NextProfile]_vars

(***************************************************************************)
(* Claims on the preference extraction and the nutrition profile           *)
(***************************************************************************)
PreferenceOps == {"get_user_favourite_ingredients", "get_user_top_tags"}

\* a positive interaction, as the specification defines it
Positive(rel) ==
    \/ rel.type = "REVIEWED" /\ \E x \in rel.rating : x >= 4
    \/ rel.type = "SUBMITTED"

\* the positive interactions of user u: <<recipe, position of the edge>>
PositiveEdges(u) ==
    UNION {{<<r, k>> : k \in {x \in DOMAIN edges[u][r] : Positive(edges[u][r][x])}} :
             r \in Recipes}

IngredientCount(u, i) ==
    Cardinality({p \in PositiveEdges(u) : i \in recipes[p[1]].ingredients})

TagCount(u, t) ==
    Cardinality(UNION {{<<p, j>> : j \in {x \in DOMAIN recipes[p[1]].tags :
                                             recipes[p[1]].tags[x] = t}} :
                         p \in PositiveEdges(u)})

AllIngredients == {"flour", "sugar", "salt", "butter"}
AllTags == {"easy", "vegan", "quick"}

\* name -> count over the positive interactions of the call's user, without
\* the excluded names
CalledCounts ==
    IF call.op = "get_user_favourite_ingredients"
    THEN [i \in {x \in AllIngredients \ call.excluded : IngredientCount(call.user_id, x) > 0}
            |-> IngredientCount(call.user_id, i)]
    ELSE [t \in {x \in AllTags \ call.excluded : TagCount(call.user_id, x) > 0}
            |-> TagCount(call.user_id, t)]

NameOf(row) ==
    IF call.op = "get_user_favourite_ingredients" THEN row.favoriteIngredient ELSE row.tag

CountOf(row) ==
    IF call.op = "get_user_favourite_ingredients" THEN row.favCount ELSE row.tagCount

NamesOf(rows) == {NameOf(rows[i]) : i \in DOMAIN rows}

\* the names at or above the q-th percentile of the distinct count values
AtOrAboveDistinctPercentile(counts, q) ==
    LET distinct == {counts[n] : n \in DOMAIN counts}
    IN  IF distinct = {} THEN {}
        ELSE {n \in DOMAIN counts :
                100 * counts[n] >= PercentileX100(SetToSeq(distinct), q)}

\* C4: the preference functions keep exactly the names whose count is >= the
\* requested percentile (linear interpolation) of the set of distinct counts.
C4_DistinctCountPercentile ==
    call.op \in PreferenceOps =>
        /\ result.kind = "return"
        /\ NamesOf(result.rows) = AtOrAboveDistinctPercentile(CalledCounts, call.percentil)

\* counts {flour: 3, sugar: 2, salt: 1} at percentile 50: threshold 2,
\* favourites flour and sugar
C4_Witness ==
    /\ call.op = "get_user_favourite_ingredients"
    /\ call.percentil = 50
    /\ CalledCounts = [i \in {"flour", "sugar", "salt"} |->
                          CASE i = "flour" -> 3 [] i = "sugar" -> 2 [] OTHER -> 1]
    /\ NamesOf(result.rows) = {"flour", "sugar"}

\* what the called preference function returns at percentile q, other
\* arguments as called
CalledAt(q) ==
    IF call.op = "get_user_favourite_ingredients"
    THEN get_user_favourite_ingredients(recipes, edges, call.user_id, call.excluded, q)
    ELSE get_user_top_tags(recipes, edges, call.user_id, call.excluded, q)

\* C5: for percentiles p <= q the names returned at q are among the names
\* returned at p, other arguments equal (p is the percentile of the call).
C5_MonotoneInPercentile ==
    call.op \in PreferenceOps =>
        \A q \in {x \in PercentileInputs : x >= call.percentil} : \A out \in CalledAt(q) :
            /\ out.kind = "return" /\ result.kind = "return"
            /\ NamesOf(out.rows) \subseteq NamesOf(result.rows)

\* three names returned at percentile 0, fewer (but some) at percentile 100
C5_Witness ==
    /\ call.op = "get_user_top_tags"
    /\ call.percentil = 0
    /\ Cardinality(NamesOf(result.rows)) = 3
    /\ \E out \in CalledAt(100) : NamesOf(out.rows) # {} /\ NamesOf(out.rows) # NamesOf(result.rows)

\* C6: with no positive interaction, or with every name of the positive
\* interactions excluded, the preference functions return the empty result
\* and do not raise, at every percentile.
C6_EmptyHistoryEmptyResult ==
    (call.op \in PreferenceOps /\ DOMAIN CalledCounts = {}) =>
        result = [kind |-> "return", rows |-> <<>>]

\* the user has interactions, none of them positive
C6_Witness ==
    /\ call.op = "get_user_favourite_ingredients"
    /\ \E r \in Recipes : edges[call.user_id][r] # <<>> /\ recipes[r].ingredients # {}
    /\ PositiveEdges(call.user_id) = {}
    /\ result = [kind |-> "return", rows |-> <<>>]

\* C7: only positive interactions count: every returned count is the number
\* of REVIEWED edges with rating >= 4 and SUBMITTED edges (whatever their
\* rating) that lead to the name, every such name is returned at percentile
\* 0, and get_user_nutritional_values has one row per such edge.
C7_OnlyPositiveInteractions ==
    /\ call.op \in PreferenceOps =>
          LET counts == CalledCounts
          IN  /\ result.kind = "return"
              /\ \A i \in DOMAIN result.rows :
                    /\ NameOf(result.rows[i]) \in DOMAIN counts
                    /\ CountOf(result.rows[i]) = counts[NameOf(result.rows[i])]
              /\ call.percentil = 0 => NamesOf(result.rows) = DOMAIN counts
    /\ call.op = "get_user_favourite_ingredients" =>
          \A i \in DOMAIN result.rows : \A r \in Recipes :
              MatchCountSeq(result.rows[i].favRecipes, {r})
                = Cardinality({p \in PositiveEdges(call.user_id) :
                                 p[1] = r /\ result.rows[i].favoriteIngredient
                                                \in recipes[r].ingredients})
    /\ call.op = "get_user_nutritional_values" =>
          \A r \in Recipes :
              MatchCountSeq(Column(result.rows, "recipeID"), {r})
                = Cardinality({p \in PositiveEdges(call.user_id) : p[1] = r})

\* one recipe only reviewed below 4 (no row), one reviewed below 4 and
\* submitted with a low rating on the SUBMITTED edge (one row)
C7_Witness ==
    /\ call.op = "get_user_nutritional_values"
    /\ \E r \in Recipes : edges[call.user_id][r] = <<Reviewed(3)>>
    /\ \E r \in Recipes : edges[call.user_id][r] = <<Reviewed(3), SubmittedRated(1)>>
    /\ Len(result.rows) = 1

NutrientColumns ==
    <<"calories", "totalFat", "sugar", "sodium", "protein", "saturatedFat", "carbs">>

\* C8: get_nutritional_values returns 7 (low, high) pairs, one per nutrient,
\* each the low and high percentile of that nutrient's column alone.
C8_SevenRanges ==
    (call.op = "get_nutritional_values" /\ call.nutrVal # <<>>) =>
        /\ result.kind = "return"
        /\ Len(result.value) = NutrDims
        /\ \A k \in 1..NutrDims :
              result.value[k]
                = <<Num(PercentileX100(Column(call.nutrVal, NutrientColumns[k]), call.d_range[1])),
                    Num(PercentileX100(Column(call.nutrVal, NutrientColumns[k]), call.d_range[2]))>>

\* C9: on an empty frame get_nutritional_values fails with EmptyProfileError.
C9_EmptyProfileError ==
    (call.op = "get_nutritional_values" /\ call.nutrVal = <<>>) =>
        /\ result.kind = "raise"
        /\ result.error = "EmptyProfileError"

(***************************************************************************)
(* degree_counts (utils.py).  A direction token is a sequence of           *)
(* one-character strings, so that upper() has something to convert.        *)
(***************************************************************************)
\* the characters str.upper() leaves as they are, among those of the model
UnchangedChars ==
    {"A", "B", "C", "D", "E", "F", "G", "H", "I", "J", "K", "L", "M", "N", "O", "P",
     "Q", "R", "S", "T", "U", "V", "W", "X", "Y", "Z", " ", "|", "_", "U+00D6"}

\* the upper case of one character, as the sequence of characters that
\* replaces it.  A character outside ASCII is named by its code point:
\* "U+0131" (dotless i) becomes I, "U+00F6" (o with diaeresis) becomes
\* "U+00D6", "U+00DF" (sharp s) becomes the two characters SS.  The operator
\* has no value on a character that is not listed.
UpperChar(c) ==
    CASE c = "a" -> <<"A">> [] c = "b" -> <<"B">> [] c = "c" -> <<"C">>
      [] c = "d" -> <<"D">> [] c = "e" -> <<"E">> [] c = "f" -> <<"F">>
      [] c = "g" -> <<"G">> [] c = "h" -> <<"H">> [] c = "i" -> <<"I">>
      [] c = "j" -> <<"J">> [] c = "k" -> <<"K">> [] c = "l" -> <<"L">>
      [] c = "m" -> <<"M">> [] c = "n" -> <<"N">> [] c = "o" -> <<"O">>
      [] c = "p" -> <<"P">> [] c = "q" -> <<"Q">> [] c = "r" -> <<"R">>
      [] c = "s" -> <<"S">> [] c = "t" -> <<"T">> [] c = "u" -> <<"U">>
      [] c = "v" -> <<"V">> [] c = "w" -> <<"W">> [] c = "x" -> <<"X">>
      [] c = "y" -> <<"Y">> [] c = "z" -> <<"Z">>
      [] c = "U+0131" -> <<"I">>
      [] c = "U+00F6" -> <<"U+00D6">>
      [] c = "U+00DF" -> <<"S", "S">>
      [] c \in UnchangedChars -> <<c>>

\* str.upper(): the upper cases of the characters, one after the other
RECURSIVE Upper(_)
Upper(token) ==
    IF token = <<>> THEN <<>> ELSE UpperChar(Head(token)) \o Upper(Tail(token))

BOTH == <<"B", "O", "T", "H">>
IN_ == <<"I", "N">>
OUT == <<"O", "U", "T">>

\* the relationships of type in types that leave user u / enter recipe r
UserOutDegree(e, u, types) ==
    Cardinality(UNION {{<<r, k>> : k \in {x \in DOMAIN e[u][r] : e[u][r][x].type \in types}} :
                         r \in DOMAIN e[u]})

RecipeInDegree(e, r, types) ==
    Cardinality(UNION {{<<u, k>> : k \in {x \in DOMAIN e[u][r] : e[u][r][x].type \in types}} :
                         u \in DOMAIN e})

RecipeOutDegree(g, r, types) ==
    IF "WITH_INGREDIENTS" \in types THEN Cardinality(g[r].ingredients) ELSE 0

\* the Ingredient nodes, by name, and the WITH_INGREDIENTS edges that enter one
IngredientNodes(g) == UNION {g[r].ingredients : r \in DOMAIN g}

IngredientInDegree(g, i, types) ==
    IF "WITH_INGREDIENTS" \in types
    THEN Cardinality({r \in DOMAIN g : i \in g[r].ingredients})
    ELSE 0

\* size(pattern) for every node n of the label, pattern being
\* (n)-[:T]-(), (n)-[:T]->() or (n)<-[:T]-()
Degrees(g, e, node_label, types, dr) ==
    CASE node_label = "User" ->
            [u \in DOMAIN e |-> IF dr = IN_ THEN 0 ELSE UserOutDegree(e, u, types)]
      [] node_label = "Recipe" ->
            [r \in DOMAIN g |->
                CASE dr = BOTH -> RecipeInDegree(e, r, types) + RecipeOutDegree(g, r, types)
                  [] dr = OUT -> RecipeOutDegree(g, r, types)
                  [] OTHER -> RecipeInDegree(e, r, types)]
      [] node_label = "Ingredient" ->
            [i \in IngredientNodes(g) |->
                IF dr = OUT THEN 0 ELSE IngredientInDegree(g, i, types)]
      [] OTHER -> <<>>

\* RETURN degree, count(degree) AS degreeCount ORDER BY degree
DegreeRows(degrees) ==
    LET ds == Sorted(SetToSeq({degrees[n] : n \in DOMAIN degrees}))
    IN  [i \in DOMAIN ds |->
            [degree |-> ds[i],
             degreeCount |-> Cardinality({n \in DOMAIN degrees : degrees[n] = ds[i]})]]

RECURSIVE CumSum(_, _)
CumSum(rows, i) == IF i = 0 THEN 0 ELSE CumSum(rows, i - 1) + rows[i].degreeCount

\* df['percentile'] = df.degreeCount.cumsum() / df.degreeCount.sum(), kept
\* as the fraction num / den
WithPercentile(rows) ==
    [i \in DOMAIN rows |->
        [degree |-> rows[i].degree, degreeCount |-> rows[i].degreeCount,
         percentile |-> [num |-> CumSum(rows, i), den |-> CumSum(rows, Len(rows))]]]

\* degree_counts that compares the token as given, without upper()
degree_counts_no_upper(g, e, node_label, relationship_type, direction) ==
    IF direction \notin {BOTH, IN_, OUT}
    THEN [kind |-> "raise", error |-> "GraphQueryError", queries |-> 0]
    ELSE [kind |-> "return", queries |-> 1,
          rows |-> WithPercentile(DegreeRows(
                       Degrees(g, e, node_label, relationship_type, direction)))]

\* queries counts the run_cypher calls made before the function ended
degree_counts(g, e, node_label, relationship_type, direction) ==
    LET dr == Upper(direction)
    IN  IF dr \notin {BOTH, IN_, OUT}
        THEN [kind |-> "raise", error |-> "GraphQueryError", queries |-> 0]
        ELSE [kind |-> "return", queries |-> 1,
              rows |-> WithPercentile(DegreeRows(
                           Degrees(g, e, node_label, relationship_type, dr)))]

DirectionInputs ==
    {BOTH, IN_, OUT, <<"b", "o", "t", "h">>, <<"B", "o", "t", "h">>, <<"i", "n">>,
     <<"o", "u", "T">>, <<>>, <<"u", "p">>, <<"I", "N", "O", "U", "T">>,
     <<"o", "u", "t", " ">>, <<"a", "n", "y">>, <<"U+0131", "n">>, <<"U+0131", "N">>,
     <<"U+00F6", "u", "t">>, <<"U+00DF">>}

\* the three labels of the graph, and one that no node carries
LabelInputs == {"User", "Recipe", "Ingredient", "Foo"}
\* 'REVIEWED', 'SUBMITTED', 'REVIEWED|SUBMITTED', 'WITH_INGREDIENTS', as the
\* set of types the pattern [:T] matches
RelationshipTypeInputs ==
    {{"REVIEWED"}, {"SUBMITTED"}, {"REVIEWED", "SUBMITTED"}, {"WITH_INGREDIENTS"}}

InitDegree ==
    /\ recipes = [r \in Recipes |-> ItemRecipes[((r - 1) % Len(ItemRecipes)) + 1]]
    /\ edges \in [Users -> [Recipes -> PlainHistoryInputs]]
    /\ call = [op |-> "none"]
    /\ result = <<>>

DegreeCounts ==
    /\ Idle
    /\ \E l \in LabelInputs, t \in RelationshipTypeInputs, d \in DirectionInputs :
         Outcome("degree_counts",
                 [node_label |-> l, relationship_type |-> t, direction |-> d],
                 degree_counts(recipes, edges, l, t, d))

NextDegree == DegreeCounts

SpecDegree == InitDegree /\ [][NextDegree]_vars

(***************************************************************************)
(* Claims on degree_counts                                                 *)
(***************************************************************************)
LowerOf(c) ==
    CASE c = "B" -> "b" [] c = "O" -> "o" [] c = "T" -> "t" [] c = "H" -> "h"
      [] c = "I" -> "i" [] c = "N" -> "n" [] c = "U" -> "u" [] OTHER -> c

\* the characters that stand for the upper-case letter c when case is
\* ignored the way str.upper() does: the letter, its lower case and, for I,
\* the dotless i
CaseVariants(c) == {c, LowerOf(c)} \cup (IF c = "I" THEN {"U+0131"} ELSE {})

\* token spells word, in any mix of upper and lower case
SpellsIgnoringCase(token, word) ==
    /\ Len(token) = Len(word)
    /\ \A i \in DOMAIN word : token[i] \in CaseVariants(word[i])

ValidDirection(token) == \E w \in {BOTH, IN_, OUT} : SpellsIgnoringCase(token, w)

\* C10 as stated: a token that is none of BOTH, IN, OUT (ignoring case)
\* fails with InvalidDirectionError before any query is issued; a valid
\* token raises nothing.
C10_InvalidDirectionError ==
    call.op = "degree_counts" =>
        IF ValidDirection(call.direction)
        THEN result.kind = "return"
        ELSE /\ result.kind = "raise"
             /\ result.error = "InvalidDirectionError"
             /\ result.queries = 0

\* C10 amended: the failure is a GraphQueryError; the rest as stated, and
\* the valid token is used as the direction (no default replaces it).
C10_GraphQueryError ==
    call.op = "degree_counts" =>
        IF ValidDirection(call.direction)
        THEN /\ result.kind = "return"
             /\ result.rows = WithPercentile(DegreeRows(
                    Degrees(recipes, edges, call.node_label, call.relationship_type,
                            CHOOSE w \in {BOTH, IN_, OUT} :
                                SpellsIgnoringCase(call.direction, w))))
        ELSE result = [kind |-> "raise", error |-> "GraphQueryError", queries |-> 0]

\* a lower-case token was accepted and gave degree rows for users with
\* different degrees
C10_Witness ==
    /\ call.op = "degree_counts"
    /\ call.direction = <<"o", "u", "T">>
    /\ result.kind = "return"
    /\ Len(result.rows) > 1

(***************************************************************************)
(* get_hops_count: the two-hop traversal.  A relationship of the graph is  *)
(* named <<u, r, k>>: the k-th relationship from user u to recipe r.       *)
(***************************************************************************)
Relationships(e) ==
    UNION {UNION {{<<u, r, k>> : k \in DOMAIN e[u][r]} : r \in DOMAIN e[u]} : u \in DOMAIN e}

RelType(e, x) == e[x[1]][x[2]][x[3]].type

\* MATCH (u1:User {id: $userId})-[r:REVIEWED|SUBMITTED]->(recipe:Recipe)
FirstHopMatches(e, user_id) ==
    {x \in Relationships(e) : x[1] = user_id /\ RelType(e, x) \in {"REVIEWED", "SUBMITTED"}}

\* COLLECT(recipe) AS userRecipes, as the set of its elements
UserRecipes(e, user_id) == {x[2] : x \in FirstHopMatches(e, user_id)}

\* MATCH (u1)-[:REVIEWED]->(r1)<-[:REVIEWED|SUBMITTED]-(u2)-[:REVIEWED|SUBMITTED]->(r2):
\* the paths <<a, b, c>> of three different relationships (a pattern never
\* uses a relationship twice), a from u1 to r1, b from u2 to r1, c from u2 to r2
TwoHopMatches(e, user_id) ==
    UNION {UNION {{<<a, b, c>> :
                      c \in {z \in Relationships(e) :
                                /\ z[1] = b[1]
                                /\ RelType(e, z) \in {"REVIEWED", "SUBMITTED"}
                                /\ z # a /\ z # b}} :
                  b \in {y \in Relationships(e) :
                            /\ y[2] = a[2]
                            /\ RelType(e, y) \in {"REVIEWED", "SUBMITTED"}
                            /\ y # a}} :
           a \in {x \in Relationships(e) : x[1] = user_id /\ RelType(e, x) = "REVIEWED"}}

\* RETURN u1.id, COUNT(DISTINCT r1), COUNT(DISTINCT u2), COUNT(DISTINCT r2):
\* one row per u1.id among the matches, so no row when nothing matched
HopsRows(user_id, matches) ==
    IF matches = {} THEN <<>>
    ELSE <<[userId |-> user_id,
            interactedRecipesCount |-> Cardinality({p[1][2] : p \in matches}),
            likeUsersCount |-> Cardinality({p[2][1] : p \in matches}),
            potentialRecommendationsCount |-> Cardinality({p[3][2] : p \in matches})]>>

\* the WITH after the first MATCH yields no row when the user has no
\* relationship (or does not exist), and then the query returns no row
get_hops_count(e, user_id) ==
    IF FirstHopMatches(e, user_id) = {} THEN <<>>
    ELSE HopsRows(user_id,
                  {p \in TwoHopMatches(e, user_id) :
                      p[3][2] \notin UserRecipes(e, user_id)})

(***************************************************************************)
(* Inputs of get_hops_count                                                *)
(***************************************************************************)
HopUsers == {"u1", "u2", "u3"}
\* one recipe more than the candidate queries need: a reviewed one, a
\* submitted one and a new one
HopRecipes == 1..(NRecipes + 1)
\* a user id no User node carries
UnknownUser == "u0"

\* what the target user can have to one recipe
TargetHistoryInputs ==
    <<<<>>, <<Reviewed(PositiveRating)>>, <<Submitted>>, <<Reviewed(PositiveRating), Submitted>>>>

\* the histories of the target user, up to the numbering of the recipes
\* (the traversal does not depend on it)
TargetHistories ==
    {[r \in HopRecipes |-> TargetHistoryInputs[f[r]]] :
        f \in {x \in [HopRecipes -> DOMAIN TargetHistoryInputs] :
                  \A r \in HopRecipes \ {1} : x[r - 1] <= x[r]}}
NeighbourHistoryInputs == {<<>>, <<Reviewed(PositiveRating)>>, <<Submitted>>}
ThirdHistoryInputs == {<<>>, <<Reviewed(PositiveRating - 1)>>}

InitHops ==
    /\ recipes = [r \in HopRecipes |-> ItemRecipes[((r - 1) % Len(ItemRecipes)) + 1]]
    /\ \E h1 \in TargetHistories,
          h2 \in [HopRecipes -> NeighbourHistoryInputs],
          h3 \in [HopRecipes -> ThirdHistoryInputs] :
          edges = [u \in HopUsers |-> CASE u = "u1" -> h1 [] u = "u2" -> h2 [] OTHER -> h3]
    /\ call = [op |-> "none"]
    /\ result = <<>>

GetHopsCount ==
    /\ Idle
    /\ \E u \in HopUsers \cup {UnknownUser} :
         Outcome("get_hops_count", [user_id |-> u], get_hops_count(edges, u))

NextHops == GetHopsCount

SpecHops == InitHops /\ [][NextHops]_vars

(***************************************************************************)
(* Claims on get_hops_count                                                *)
(***************************************************************************)
HasRel(e, u, r, types) == \E k \in DOMAIN e[u][r] : e[u][r][k].type \in types

\* the recipes user u has REVIEWED / the set R1 of recipes u has REVIEWED or
\* SUBMITTED
ReviewedBy(e, u) ==
    IF u \in DOMAIN e THEN {r \in DOMAIN e[u] : HasRel(e, u, r, {"REVIEWED"})} ELSE {}

R1(e, u) ==
    IF u \in DOMAIN e
    THEN {r \in DOMAIN e[u] : HasRel(e, u, r, {"REVIEWED", "SUBMITTED"})}
    ELSE {}

\* the other users who REVIEWED or SUBMITTED a recipe that u REVIEWED
Neighbours(e, u) ==
    {v \in DOMAIN e \ {u} :
        \E r \in ReviewedBy(e, u) : HasRel(e, v, r, {"REVIEWED", "SUBMITTED"})}

\* the recipes of the neighbours that are not in R1
CandidatePool(e, u) ==
    {r \in UNION {R1(e, v) : v \in Neighbours(e, u)} : r \notin R1(e, u)}

\* C11: for a user with no REVIEWED edge get_hops_count returns one row
\* whose three counts are 0 (not an error, not an empty result).
C11_ZeroReviewedZeroRow ==
    (/\ call.op = "get_hops_count"
     /\ call.user_id \in DOMAIN edges
     /\ ReviewedBy(edges, call.user_id) = {})
        => /\ Len(result) = 1
           /\ result[1].interactedRecipesCount = 0
           /\ result[1].likeUsersCount = 0
           /\ result[1].potentialRecommendationsCount = 0

\* C12: the likeUsersCount of a returned row is the number of distinct other
\* users who REVIEWED or SUBMITTED a recipe the target user REVIEWED, also
\* counting the neighbours whose recipes are all in R1.
C12_NeighbourCount ==
    call.op = "get_hops_count" =>
        \A i \in DOMAIN result :
            result[i].likeUsersCount = Cardinality(Neighbours(edges, call.user_id))

\* C13: for a user who REVIEWED some recipe, get_hops_count returns one row
\* whose potentialRecommendationsCount is the number of distinct recipes
\* REVIEWED or SUBMITTED by a neighbour and not in R1 (0 when the neighbours
\* have no such recipe, or when there is no neighbour).
C13_CandidatePoolSize ==
    (/\ call.op = "get_hops_count"
     /\ ReviewedBy(edges, call.user_id) # {})
        => /\ Len(result) = 1
           /\ result[1].potentialRecommendationsCount
                 = Cardinality(CandidatePool(edges, call.user_id))

====
